---- MODULE Spec2Model ----
(***************************************************************************)
(* Model of the revenue computation and monthly aggregation engine:        *)
(* src/src/revenue_calculator.py (rate catalog, add_units,                 *)
(* compute_revenue) and compute_monthly_kpis of src/src/kpi_metrics.py.    *)
(*                                                                         *)
(* Currency amounts are integers in cents (26.50 is 2650).  Every          *)
(* configured rate is a multiple of 0.50, so the sums the code forms in    *)
(* binary floating point are exact and integer arithmetic agrees with it.  *)
(* A float that may be NaN is a record [nan, v].                           *)
(***************************************************************************)
EXTENDS Integers, Sequences, FiniteSets, TLC

VARIABLES
    RATE_TABLES,   \* the module-level dict: fiscal-year label -> rate dict object
    call,          \* the last call made: its operation, arguments and result
    writes         \* number of item assignments the caller made to a received dict

vars == <<RATE_TABLES, call, writes>>

(***************************************************************************)
(* Bounds of the model.                                                    *)
(***************************************************************************)
MaxRows == 2       \* rows of an input table
MaxWrites == 1     \* caller's assignments into a dict returned by get_rates

(***************************************************************************)
(* Billing rates (cents).                                                  *)
(***************************************************************************)
RATES_FY23 ==
    ("90832" :> 6500) @@ ("90834" :> 10000) @@ ("90837" :> 12900) @@
    ("H0001" :> 17600) @@ ("H0006" :> 4550) @@
    ("T1012" :> 4750) @@ ("T1012G" :> 1900) @@
    ("H0004" :> 2650) @@ ("H0038" :> 2400) @@ ("H0038G" :> 550)

RATES_FY24 ==
    ("90832" :> 7150) @@ ("90834" :> 11000) @@ ("90837" :> 14200) @@
    ("H0001" :> 19400) @@ ("H0006" :> 5050) @@
    ("T1012" :> 5250) @@ ("T1012G" :> 2100) @@
    ("H0004" :> 2950) @@ ("H0038" :> 2650) @@ ("H0038G" :> 650)

\* dict(RATES_FY24): a new dict object with the same items.  Objects are told
\* apart by their key in RATE_TABLES, so the copy is the same value under
\* another key.
RATES_FY25 == [c \in DOMAIN RATES_FY24 |-> RATES_FY24[c]]

RATE_TABLES_0 ==
    ("FY23" :> RATES_FY23) @@ ("FY24" :> RATES_FY24) @@ ("FY25" :> RATES_FY25)

TIME_BASED_CODES == {"H0038", "H0004"}

(***************************************************************************)
(* Floats and input cells.                                                 *)
(***************************************************************************)
Num(x) == [nan |-> FALSE, v |-> x]
NaN == [nan |-> TRUE, v |-> 0]

\* A cell of an input column: a value of the column's kind ("num", "date"),
\* a string that is not one ("text"), or None/NaN ("missing").
NumCell(x) == [kind |-> "num", v |-> x]
TextCell == [kind |-> "text", v |-> 0]
MissingCell == [kind |-> "missing", v |-> 0]

DateCell(yy, mm, dd) == [kind |-> "date", y |-> yy, m |-> mm, d |-> dd]
TextDate == [kind |-> "text", y |-> 0, m |-> 0, d |-> 0]
MissingDate == [kind |-> "missing", y |-> 0, m |-> 0, d |-> 0]

\* A missing (NaN) cpt_code.  Real codes are Python strings.
NoCode == "<NaN>"

\* pd.to_numeric(s, errors="coerce"): a number stays, anything else is NaN.
to_numeric(cell) == IF cell.kind = "num" THEN Num(cell.v) ELSE NaN

\* Series.fillna(x)
fillna(f, x) == IF f.nan THEN Num(x) ELSE f

\* Deviation: an unparsable date becomes a default timestamp instead of NaT,
\* so its row is kept.
to_datetime_keep(cell) ==
    IF cell.kind = "date" THEN [nat |-> FALSE, y |-> cell.y, m |-> cell.m, d |-> cell.d]
    ELSE [nat |-> FALSE, y |-> 1970, m |-> 1, d |-> 1]

\* pd.to_datetime(s, errors="coerce"): a date stays, anything else is NaT.
Timestamp(yy, mm, dd) == [nat |-> FALSE, y |-> yy, m |-> mm, d |-> dd]
NaT == [nat |-> TRUE, y |-> 0, m |-> 0, d |-> 0]
to_datetime(cell) ==
    IF cell.kind = "date" THEN Timestamp(cell.y, cell.m, cell.d) ELSE NaT

\* .dt.to_period("M").dt.to_timestamp(): the first day of the timestamp's month.
_month_start(ts) == IF ts.nat THEN NaT ELSE Timestamp(ts.y, ts.m, 1)

\* Timestamp ordering.
TsLess(a, b) ==
    \/ a.y < b.y
    \/ a.y = b.y /\ a.m < b.m
    \/ a.y = b.y /\ a.m = b.m /\ a.d < b.d

\* Python's ordering of the code strings of the model (by code point: digits
\* before upper-case letters, a proper prefix before its extensions).
CodeOrder ==
    <<"90832", "90834", "90837", "H0001", "H0004", "H0006", "H0038", "H0038G",
      "T1012", "T1012G", "X9999">>
CodeRank(c) == CHOOSE i \in 1..Len(CodeOrder) : CodeOrder[i] = c
CodeLess(a, b) == CodeRank(a) < CodeRank(b)

(***************************************************************************)
(* Rate Catalog.                                                           *)
(***************************************************************************)
\* Deviation: an unregistered label falls back to the FY24 table.
get_rates_default(tables, fiscal_year) ==
    IF fiscal_year \notin DOMAIN tables
    THEN [status |-> "ok", error |-> "none", ref |-> "FY24"]
    ELSE [status |-> "ok", error |-> "none", ref |-> fiscal_year]

\* get_rates: the dict object registered under the label (by reference: the
\* result names the object), or ValueError "Unknown fiscal_year=...".
get_rates(tables, fiscal_year) ==
    IF fiscal_year \notin DOMAIN tables
    THEN [status |-> "error", error |-> "UnknownFiscalYear", ref |-> "none"]
    ELSE [status |-> "ok", error |-> "none", ref |-> fiscal_year]

(***************************************************************************)
(* Unit Deriver.                                                           *)
(***************************************************************************)
\* 15-minute billing increment
UnitMinutes == 15

\* Deviation: the clip is left out.
clip_lower_none(n, x) == n

\* Series.clip(lower=x)
clip_lower(n, x) == IF n < x THEN x ELSE n

\* One row of add_units.  \div is floor division, as np.floor(d / 15).
add_units_row(r, time_based_codes) ==
    LET duration == fillna(to_numeric(r.duration_min), 0)
        is_time_based == r.cpt_code # NoCode /\ r.cpt_code \in time_based_codes
        units == IF is_time_based THEN duration.v \div UnitMinutes ELSE 1
    IN  [units |-> clip_lower(units, 0)] @@ [r EXCEPT !.duration_min = duration]

add_units(df, time_based_codes) ==
    [i \in 1..Len(df) |-> add_units_row(df[i], time_based_codes)]

(***************************************************************************)
(* Grouping, aggregation and sorting (pandas groupby / agg / sort_values). *)
(***************************************************************************)
RECURSIVE SumField(_, _)
SumField(rows, f) ==
    IF rows = <<>> THEN 0 ELSE Head(rows)[f] + SumField(Tail(rows), f)

\* The group key of a row: its values in the columns of `by`.
KeyOf(r, by) == [j \in 1..Len(by) |-> r[by[j]]]

\* Ordering of the values of one key column.
ColLess(col, a, b) == IF col = "month" THEN TsLess(a, b) ELSE CodeLess(a, b)

\* Lexicographic ordering of group keys.
KeyLess(by, a, b) ==
    \E j \in 1..Len(by) :
        /\ \A k \in 1..(j - 1) : a[k] = b[k]
        /\ ColLess(by[j], a[j], b[j])

\* A key value pandas treats as missing.
IsNA(col, x) == IF col = "month" THEN x.nat ELSE x = NoCode

\* groupby(by) with the defaults dropna=True, sort=True: the distinct keys of
\* the rows none of whose key values is missing, in ascending order.
GroupKeySet(out, by) ==
    {KeyOf(out[i], by) :
        i \in {n \in 1..Len(out) : \A j \in 1..Len(by) : ~IsNA(by[j], out[n][by[j]])}}

RECURSIVE SortKeys(_, _)
SortKeys(S, by) ==
    IF S = {} THEN <<>>
    ELSE LET first == CHOOSE x \in S : \A y \in S \ {x} : KeyLess(by, x, y)
         IN  <<first>> \o SortKeys(S \ {first}, by)

\* The rows of one group.
GroupRows(out, by, key) ==
    LET InGroup(r) == KeyOf(r, by) = key IN SelectSeq(out, InGroup)

\* as_index=False: the key columns come back as columns of the result.
KeyCols(by, key) ==
    [c \in {by[j] : j \in 1..Len(by)} |-> key[CHOOSE j \in 1..Len(by) : by[j] = c]]

\* .agg(encounters=(.., "size"), total_units=("units", "sum"),
\*      revenue=("revenue", "sum")) over groupby(by, as_index=False)
groupby_agg(out, by) ==
    LET keys == SortKeys(GroupKeySet(out, by), by)
    IN  [i \in 1..Len(keys) |->
            LET g == GroupRows(out, by, keys[i])
            IN  KeyCols(by, keys[i]) @@
                [encounters |-> Len(g),
                 total_units |-> SumField(g, "units"),
                 revenue |-> SumField(g, "revenue")]]

\* DataFrame.sort_values(by): a stable sort, ascending.
RECURSIVE sort_values(_, _)
sort_values(t, by) ==
    IF Len(t) <= 1 THEN t
    ELSE LET rest == sort_values(Tail(t), by)
             h == Head(t)
             n == Cardinality({i \in 1..Len(rest) :
                                  KeyLess(by, KeyOf(rest[i], by), KeyOf(h, by))})
         IN  SubSeq(rest, 1, n) \o <<h>> \o SubSeq(rest, n + 1, Len(rest))

(***************************************************************************)
(* Revenue Calculator.                                                     *)
(***************************************************************************)
RequiredCols == {"encounter_date", "cpt_code", "duration_min"}

\* Python's ordering of the column names of the model.
ColumnOrder == <<"cpt_code", "duration_min", "encounter_date", "staff_id">>

\* Deviation: the names are listed unsorted (here: in descending order).
sorted_not(names) ==
    LET In(c) == c \in names
        asc == SelectSeq(ColumnOrder, In)
    IN  [i \in 1..Len(asc) |-> asc[Len(asc) + 1 - i]]

\* sorted(names)
sorted(names) == LET In(c) == c \in names IN SelectSeq(ColumnOrder, In)

\* The rates argument: None, or an explicit dict.
NoRates == [given |-> FALSE, map |-> <<>>]
Rates(m) == [given |-> TRUE, map |-> m]

\* Deviation: a code that is no key of the dict is billed at a default rate
\* of 1.00 instead of coming out NaN.
map_rate_default(code, rates) ==
    IF code # NoCode /\ code \in DOMAIN rates THEN Num(rates[code]) ELSE Num(100)

\* Series.map(dict): the value under the key, NaN where the key is absent.
\* A missing code is not a key of a dict of code strings.
map_rate(code, rates) ==
    IF code # NoCode /\ code \in DOMAIN rates THEN Num(rates[code]) ELSE NaN

Failure(kind, cols) ==
    [status |-> "error", error |-> kind, missing |-> cols,
     out |-> <<>>, monthly_by_code |-> <<>>, monthly_total |-> <<>>]

\* Deviation: revenue is the rate, not units x rate.
enrich_row_flat(r, rates, time_based_codes) ==
    LET withMonth == [month |-> _month_start(r.encounter_date)] @@ r
        withUnits == add_units_row(withMonth, time_based_codes)
        rate == fillna(map_rate(withUnits.cpt_code, rates), 0).v
    IN  [rate |-> rate, revenue |-> rate] @@ withUnits

\* One row after date parsing: month, units, rate and revenue added.
enrich_row(r, rates, time_based_codes) ==
    LET withMonth == [month |-> _month_start(r.encounter_date)] @@ r
        withUnits == add_units_row(withMonth, time_based_codes)
        rate == fillna(map_rate(withUnits.cpt_code, rates), 0).v
    IN  [rate |-> rate, revenue |-> withUnits.units * rate] @@ withUnits

compute_revenue(tables, df, fiscal_year, rates, time_based_codes) ==
    LET looked == get_rates(tables, fiscal_year)
    IN  IF ~rates.given /\ looked.status = "error"
        THEN Failure(looked.error, <<>>)
        ELSE
        LET rmap == IF rates.given THEN rates.map ELSE tables[looked.ref]
            missing == RequiredCols \ df.columns
        IN  IF missing # {}
            THEN Failure("MissingColumns", sorted(missing))
            ELSE
            LET parsed == [i \in 1..Len(df.rows) |->
                              [df.rows[i] EXCEPT !.encounter_date = to_datetime(@)]]
                HasDate(r) == ~r.encounter_date.nat
                kept == SelectSeq(parsed, HasDate)
                out == [i \in 1..Len(kept) |-> enrich_row(kept[i], rmap, time_based_codes)]
            IN  [status |-> "ok", error |-> "none", missing |-> <<>>,
                 out |-> out,
                 monthly_by_code |->
                     sort_values(groupby_agg(out, <<"month", "cpt_code">>),
                                 <<"month", "cpt_code">>),
                 monthly_total |->
                     sort_values(groupby_agg(out, <<"month">>), <<"month">>)]

(***************************************************************************)
(* Monthly KPIs (src/src/kpi_metrics.py).  A float the ratios produce is   *)
(* finite, the rational num/den with den > 0, or one of inf, -inf, nan.    *)
(***************************************************************************)
Fin(n, d) == [kind |-> "fin", num |-> n, den |-> d]
NonFinite(k) == [kind |-> k, num |-> 0, den |-> 1]

\* Deviation: a zero divisor is guarded and the ratio reported as 0.
FloatDiv_guarded(a, b) ==
    IF b.num = 0 THEN Fin(0, 1)
    ELSE IF b.num > 0 THEN Fin(a.num * b.den, a.den * b.num)
         ELSE Fin((0 - a.num) * b.den, a.den * (0 - b.num))

\* Float division of two finite floats: x / 0 is not an error in a pandas
\* Series, it is inf, -inf or (0 / 0) nan.
FloatDiv(a, b) ==
    IF b.num = 0
    THEN IF a.num > 0 THEN NonFinite("inf")
         ELSE IF a.num < 0 THEN NonFinite("-inf") ELSE NonFinite("nan")
    ELSE IF b.num > 0 THEN Fin(a.num * b.den, a.den * b.num)
         ELSE Fin((0 - a.num) * b.den, a.den * (0 - b.num))

\* Series.sum(): NaN entries are skipped; an all-NaN or empty sum is 0.
RECURSIVE SumSkipNa(_, _)
SumSkipNa(rows, f) ==
    IF rows = <<>> THEN 0
    ELSE (IF Head(rows)[f].nan THEN 0 ELSE Head(rows)[f].v) + SumSkipNa(Tail(rows), f)

MinutesPerHour == 60

\* Assumed working hours per month of the full-time baseline
FullTimeHours == 160

\* The row of one month: the aggregates, then the derived ratios.
kpi_row(month, g) ==
    LET encounters == Len(g)
        client_hours == Fin(SumSkipNa(g, "duration_min"), MinutesPerHour)
        revenue == SumSkipNa(g, "revenue")
    IN  [month |-> month,
         encounters |-> encounters,
         client_hours |-> client_hours,
         revenue |-> revenue,
         revenue_per_hour |-> FloatDiv(Fin(revenue, 1), client_hours),
         revenue_per_encounter |-> FloatDiv(Fin(revenue, 1), Fin(encounters, 1)),
         utilization_rate |-> FloatDiv(client_hours, Fin(FullTimeHours, 1))]

compute_monthly_kpis(rows) ==
    LET typed == [i \in 1..Len(rows) |->
                     [rows[i] EXCEPT !.encounter_date = to_datetime(@),
                                     !.duration_min = to_numeric(@)]]
        HasDate(r) == ~r.encounter_date.nat
        kept == SelectSeq(typed, HasDate)
        df == [i \in 1..Len(kept) |->
                  [month |-> _month_start(kept[i].encounter_date)] @@ kept[i]]
        keys == SortKeys(GroupKeySet(df, <<"month">>), <<"month">>)
        monthly == [i \in 1..Len(keys) |->
                       kpi_row(keys[i][1], GroupRows(df, <<"month">>, keys[i]))]
    IN  sort_values(monthly, <<"month">>)

(***************************************************************************)
(* Inputs of the calls.                                                    *)
(***************************************************************************)
\* Sequences of at most n elements of S.
SeqUpTo(S, n) == UNION {[1..k -> S] : k \in 0..n}

FiscalYears == {"FY23", "FY24", "FY25", "FY99"}

RevDates == {TextDate, DateCell(2023, 12, 31), DateCell(2024, 1, 5), DateCell(2024, 1, 20)}
RevCodes == {"90834", "H0038", "X9999", NoCode}
RevDurations == {NumCell(47), NumCell(50)}

RevRows ==
    [encounter_date : RevDates, cpt_code : RevCodes, duration_min : RevDurations]

\* The rows of the calls made while the rate tables are being handed out
\* and written to.
FewRows ==
    [encounter_date : {DateCell(2024, 1, 5)}, cpt_code : RevCodes,
     duration_min : {NumCell(47)}]

AllCols == RequiredCols \cup {"staff_id"}

\* A row cut down to the columns a table has.
Project(r, cols) == [c \in (DOMAIN r) \cap cols |-> r[c]]

CompleteFrames(rows) ==
    {[columns |-> RequiredCols, rows |-> t] : t \in SeqUpTo(rows, MaxRows)}

IncompleteFrames ==
    {[columns |-> cols,
      rows |-> <<Project([encounter_date |-> DateCell(2024, 1, 5),
                          cpt_code |-> "H0038",
                          duration_min |-> NumCell(47)], cols)>>] :
        cols \in {c \in SUBSET AllCols : ~(RequiredCols \subseteq c)}}

RevFrames == CompleteFrames(RevRows) \cup IncompleteFrames
FewFrames == CompleteFrames(FewRows) \cup IncompleteFrames

RateArgs ==
    {NoRates, Rates(<<>>), Rates(("90834" :> 5000) @@ ("X9999" :> 150))}

\* Tables handed to add_units.
UnitCodes == {"90834", "H0038", "H0004", NoCode}
UnitDurations ==
    {NumCell(d) : d \in {-20, -1, 0, 14, 15, 45, 47}} \cup {TextCell, MissingCell}
UnitRows == [cpt_code : UnitCodes, duration_min : UnitDurations]
UnitFrames == SeqUpTo(UnitRows, MaxRows)
TbcArgs == {{}, TIME_BASED_CODES, {"90834"}, {"90834", "H0038", "H0004"}}

\* Tables handed to compute_monthly_kpis.
KpiDates == {MissingDate, DateCell(2023, 12, 31), DateCell(2024, 1, 5)}
KpiDurations == {NumCell(0), NumCell(90), NumCell(-90), TextCell}
KpiRevenues == {Num(0), Num(11000), Num(-500), NaN}
KpiRows ==
    [encounter_date : KpiDates, duration_min : KpiDurations, revenue : KpiRevenues]
KpiFrames == SeqUpTo(KpiRows, MaxRows)

(***************************************************************************)
(* The program: the calls of a single-threaded client, one action each.    *)
(* call.op = "none" when the client is between calls.                      *)
(***************************************************************************)
NoArgs == [none |-> TRUE]
Idle == [op |-> "none", args |-> NoArgs, result |-> NoArgs]

Init ==
    /\ RATE_TABLES = RATE_TABLES_0
    /\ call = Idle
    /\ writes = 0

\* A call of get_rates(fiscal_year).
GetRates ==
    /\ call.op = "none"
    /\ \E fy \in FiscalYears :
        call' = [op |-> "get_rates",
                 args |-> [fiscal_year |-> fy],
                 result |-> get_rates(RATE_TABLES, fy)]
    /\ UNCHANGED <<RATE_TABLES, writes>>

\* The caller assigns an item of the dict its get_rates call returned:
\* rates = get_rates("FY24"); rates["H0038"] = 0.0.  The dict is the object
\* registered in RATE_TABLES, so the assignment shows there.
WrittenCodes == {"90834", "H0038"}
WrittenRates == {0}

CallerWrites ==
    /\ writes < MaxWrites
    /\ call.op \in {"get_rates", "write"}
    /\ call.result.status = "ok"
    /\ \E c \in WrittenCodes, x \in WrittenRates :
        /\ RATE_TABLES' = [RATE_TABLES EXCEPT ![call.result.ref][c] = x]
        /\ call' = [op |-> "write",
                    args |-> [code |-> c, rate |-> x],
                    result |-> call.result]
    /\ writes' = writes + 1

\* A call of compute_revenue(df, fiscal_year, rates, time_based_codes) with
\* arguments drawn from the given sets.
CallComputeRevenue(frames, years, rateArgs, tbcs) ==
    /\ call.op = "none"
    /\ \E df \in frames, fy \in years, rates \in rateArgs, tbc \in tbcs :
        call' = [op |-> "compute_revenue",
                 args |-> [df |-> df, fiscal_year |-> fy, rates |-> rates,
                           time_based_codes |-> tbc],
                 result |-> compute_revenue(RATE_TABLES, df, fy, rates, tbc)]
    /\ UNCHANGED <<RATE_TABLES, writes>>

\* The wider set of tables, under two registered years and an unregistered
\* one, with and without explicit rates.
ComputeRevenue ==
    CallComputeRevenue(RevFrames, {"FY23", "FY24", "FY99"},
                       {NoRates, Rates(("90834" :> 5000) @@ ("X9999" :> 150))},
                       {TIME_BASED_CODES})

\* Few tables, under every year and rates argument of the model.
ComputeRevenueFew ==
    CallComputeRevenue(FewFrames, FiscalYears, RateArgs,
                       {TIME_BASED_CODES, {"90834"}})

\* A call of add_units(df, time_based_codes).
AddUnits ==
    /\ call.op = "none"
    /\ \E df \in UnitFrames, tbc \in TbcArgs :
        call' = [op |-> "add_units",
                 args |-> [df |-> df, time_based_codes |-> tbc],
                 result |-> add_units(df, tbc)]
    /\ UNCHANGED <<RATE_TABLES, writes>>

\* A call of compute_monthly_kpis(encounters_with_revenue).
ComputeMonthlyKpis ==
    /\ call.op = "none"
    /\ \E df \in KpiFrames :
        call' = [op |-> "compute_monthly_kpis",
                 args |-> [df |-> df],
                 result |-> compute_monthly_kpis(df)]
    /\ UNCHANGED <<RATE_TABLES, writes>>

\* The client is done with the result of its call and drops it.
Return ==
    /\ call.op # "none"
    /\ call' = Idle
    /\ UNCHANGED <<RATE_TABLES, writes>>

\* The whole program: the catalog handed out, written to and used.
Next == GetRates \/ CallerWrites \/ ComputeRevenueFew \/ Return

Spec == Init /\ [][Next]_vars

\* compute_revenue alone, over the wider set of tables.
NextRevenue == ComputeRevenue

SpecRevenue == Init /\ [][NextRevenue]_vars

\* add_units alone.
NextUnits == AddUnits

SpecUnits == Init /\ [][NextUnits]_vars

\* compute_monthly_kpis alone.
NextKpi == ComputeMonthlyKpis

SpecKpi == Init /\ [][NextKpi]_vars

(***************************************************************************)
(* What the claims are stated with: the inputs of the last call read       *)
(* directly, without the operators that model the code.                    *)
(***************************************************************************)
RECURSIVE SumOver(_, _)
SumOver(S, fn) ==
    IF S = {} THEN 0
    ELSE LET x == CHOOSE y \in S : TRUE IN fn[x] + SumOver(S \ {x}, fn)

\* floor(d / 15), by its defining inequality (the durations of the model lie
\* within -135..134 minutes).
Quotients == -9..8
Floor15(d) == CHOOSE q \in Quotients : 15 * q <= d /\ d < 15 * (q + 1)

\* The minutes of a duration cell: 0 when it is missing or not a number.
Minutes(cell) == IF cell.kind = "num" THEN cell.v ELSE 0

ExpectedUnits(r, time_based_codes) ==
    IF r.cpt_code \in time_based_codes
    THEN LET q == Floor15(Minutes(r.duration_min)) IN IF q < 0 THEN 0 ELSE q
    ELSE 1

ExpectedRate(code, rates) == IF code \in DOMAIN rates THEN rates[code] ELSE 0

Parsable(r) == r.encounter_date.kind = "date"
FirstOfMonth(cell) == Timestamp(cell.y, cell.m, 1)

RevCalled == call.op = "compute_revenue"
RevOk == RevCalled /\ call.result.status = "ok"

\* The rate mapping a successful compute_revenue call is to use.
ResolvedRates ==
    IF call.args.rates.given THEN call.args.rates.map
    ELSE RATE_TABLES[call.args.fiscal_year]

\* Indices of the input rows with a parsable date that fall in month m.
RowsOfMonth(rows, m) ==
    {i \in 1..Len(rows) : Parsable(rows[i]) /\ FirstOfMonth(rows[i].encounter_date) = m}

(***************************************************************************)
(* C3: add_units gives units = 1 to a row whose code is not time-based,    *)
(* whatever its duration, and max(0, floor(d / 15)) to a time-based row,   *)
(* d being 0 for a missing or non-numeric duration; units is never         *)
(* negative, and durations 45 and 47 both give 3.                          *)
(***************************************************************************)
C3_AddUnits ==
    call.op = "add_units" =>
        LET df == call.args.df
            tbc == call.args.time_based_codes
            res == call.result
        IN  /\ Len(res) = Len(df)
            /\ \A i \in 1..Len(df) :
                LET d == Minutes(df[i].duration_min)
                IN  /\ res[i].cpt_code = df[i].cpt_code
                    /\ df[i].cpt_code \notin tbc => res[i].units = 1
                    /\ df[i].cpt_code \in tbc =>
                         \E q \in Quotients :
                            /\ 15 * q <= d /\ d < 15 * (q + 1)
                            /\ res[i].units = IF q < 0 THEN 0 ELSE q
                    /\ res[i].units >= 0
                    /\ (df[i].cpt_code \in tbc /\ d \in {45, 47}) => res[i].units = 3

\* A time-based row of negative duration came out with 0 units beside one of
\* 47 minutes with 3.
C3_Witness ==
    /\ call.op = "add_units"
    /\ Len(call.args.df) = 2
    /\ \A i \in 1..2 : call.args.df[i].cpt_code \in call.args.time_based_codes
    /\ call.args.df[1].duration_min = NumCell(-20)
    /\ call.args.df[2].duration_min = NumCell(47)
    /\ call.result[1].units = 0
    /\ call.result[2].units = 3

(***************************************************************************)
(* C1: for every month m with at least one input row of parsable date,     *)
(* monthly_total has a row for m whose encounters is the number of those   *)
(* rows (rows of unmapped or missing code included), whose total_units is  *)
(* the sum of their units and whose revenue is the sum of units x rate,    *)
(* rate being 0 for a code absent from the rate mapping.  The rows         *)
(* (2024-01-05, 90834, 50) and (2024-01-20, H0038, 47) under FY24 give     *)
(* encounters 2, total_units 4 and revenue 189.50 for 2024-01.             *)
(***************************************************************************)
C1_MonthlyTotal ==
    RevOk =>
        LET rows == call.args.df.rows
            tbc == call.args.time_based_codes
            mt == call.result.monthly_total
            units == [i \in 1..Len(rows) |-> ExpectedUnits(rows[i], tbc)]
            revenue == [i \in 1..Len(rows) |->
                           units[i] * ExpectedRate(rows[i].cpt_code, ResolvedRates)]
        IN  /\ \A i \in 1..Len(rows) :
                Parsable(rows[i]) =>
                    LET m == FirstOfMonth(rows[i].encounter_date)
                        of_m == RowsOfMonth(rows, m)
                    IN  \E k \in 1..Len(mt) :
                            /\ mt[k].month = m
                            /\ mt[k].encounters = Cardinality(of_m)
                            /\ mt[k].total_units = SumOver(of_m, units)
                            /\ mt[k].revenue = SumOver(of_m, revenue)
            /\ ( /\ rows = << [encounter_date |-> DateCell(2024, 1, 5),
                               cpt_code |-> "90834", duration_min |-> NumCell(50)],
                              [encounter_date |-> DateCell(2024, 1, 20),
                               cpt_code |-> "H0038", duration_min |-> NumCell(47)] >>
                 /\ ~call.args.rates.given
                 /\ call.args.fiscal_year = "FY24"
                 /\ tbc = TIME_BASED_CODES )
               => mt = << [month |-> Timestamp(2024, 1, 1), encounters |-> 2,
                           total_units |-> 4, revenue |-> 18950] >>

\* The two rows of the example were billed under FY24, and a month's total
\* counts them both.
C1_Witness ==
    /\ RevOk
    /\ ~call.args.rates.given
    /\ call.args.fiscal_year = "FY24"
    /\ Len(call.args.df.rows) = 2
    /\ call.args.df.rows[1].cpt_code = "90834"
    /\ call.args.df.rows[2].cpt_code = "H0038"
    /\ Len(call.result.monthly_total) = 1
    /\ call.result.monthly_total[1].encounters = 2
    /\ call.result.monthly_total[1].revenue = 18950

\* The revenue (resp. encounters, total_units) of the monthly_by_code rows of
\* month m, summed.
ByCodeSum(mbc, m, f) ==
    SumOver({k \in 1..Len(mbc) : mbc[k].month = m}, [k \in 1..Len(mbc) |-> mbc[k][f]])

MonthsOf(t) == {t[k].month : k \in 1..Len(t)}

(***************************************************************************)
(* C2: for every month m, the revenue of the monthly_by_code rows of m     *)
(* sums to the revenue of the monthly_total row of m.                      *)
(***************************************************************************)
C2_RevenueConsistent ==
    RevOk =>
        LET mbc == call.result.monthly_by_code
            mt == call.result.monthly_total
        IN  /\ MonthsOf(mbc) \subseteq MonthsOf(mt)
            /\ \A k \in 1..Len(mt) :
                ByCodeSum(mbc, mt[k].month, "revenue") = mt[k].revenue

\* A month with two billed codes, both with revenue, and a total that is
\* their sum.
C2_Witness ==
    /\ RevOk
    /\ Len(call.result.monthly_total) = 1
    /\ Len(call.result.monthly_by_code) = 2
    /\ call.result.monthly_by_code[1].revenue > 0
    /\ call.result.monthly_by_code[2].revenue > 0
    /\ call.result.monthly_total[1].revenue =
         call.result.monthly_by_code[1].revenue + call.result.monthly_by_code[2].revenue

(***************************************************************************)
(* C10: for every month m of monthly_total, the encounters and the         *)
(* total_units of the monthly_by_code rows of m sum to those of            *)
(* monthly_total's row of m, and the two tables have the same months       *)
(* (rows with a missing cpt_code included).                                *)
(***************************************************************************)
C10_CountsConsistent ==
    RevOk =>
        LET mbc == call.result.monthly_by_code
            mt == call.result.monthly_total
        IN  /\ MonthsOf(mbc) = MonthsOf(mt)
            /\ \A k \in 1..Len(mt) :
                /\ ByCodeSum(mbc, mt[k].month, "encounters") = mt[k].encounters
                /\ ByCodeSum(mbc, mt[k].month, "total_units") = mt[k].total_units

\* The keys of the rollup rows, and the keys of the retained input rows.
ByCodeKey(r) == <<r.month, r.cpt_code>>
RetainedByCodeKeys(rows) ==
    {<<FirstOfMonth(rows[i].encounter_date), rows[i].cpt_code>> :
        i \in {n \in 1..Len(rows) : Parsable(rows[n])}}
RetainedMonths(rows) ==
    {FirstOfMonth(rows[i].encounter_date) : i \in {n \in 1..Len(rows) : Parsable(rows[n])}}

(***************************************************************************)
(* C7: in both rollups the group keys are unique and in strictly ascending *)
(* order ((month, cpt_code) for monthly_by_code, month for monthly_total), *)
(* and a key is in the table if and only if some retained encounter row    *)
(* has that key.                                                           *)
(***************************************************************************)
C7_KeysSortedExact ==
    RevOk =>
        LET rows == call.args.df.rows
            mbc == call.result.monthly_by_code
            mt == call.result.monthly_total
        IN  /\ \A k, l \in 1..Len(mt) : k < l => TsLess(mt[k].month, mt[l].month)
            /\ \A k, l \in 1..Len(mbc) :
                k < l =>
                    \/ TsLess(mbc[k].month, mbc[l].month)
                    \/ /\ mbc[k].month = mbc[l].month
                       /\ mbc[k].cpt_code # NoCode /\ mbc[l].cpt_code # NoCode
                       /\ CodeLess(mbc[k].cpt_code, mbc[l].cpt_code)
            /\ {mt[k].month : k \in 1..Len(mt)} = RetainedMonths(rows)
            /\ {ByCodeKey(mbc[k]) : k \in 1..Len(mbc)} = RetainedByCodeKeys(rows)

(***************************************************************************)
(* C8: compute_revenue does not fail on an unparsable or missing           *)
(* encounter_date.  The enriched rows are the input rows of parsable date, *)
(* each once and in input order, each with month = the first day of its    *)
(* date's month; the dropped rows add to no count or sum of either rollup. *)
(***************************************************************************)
C8_BadDatesDropped ==
    (RevCalled /\ RequiredCols \subseteq call.args.df.columns
               /\ (call.args.rates.given
                     \/ call.args.fiscal_year \in {"FY23", "FY24", "FY25"})) =>
        LET rows == call.args.df.rows
            out == call.result.out
            good == {i \in 1..Len(rows) : Parsable(rows[i])}
            \* the input index of the k-th row of parsable date
            nth(k) == CHOOSE i \in good : Cardinality({j \in good : j <= i}) = k
            cleaned == [call.args.df EXCEPT !.rows = SelectSeq(rows, Parsable)]
            again == compute_revenue(RATE_TABLES, cleaned, call.args.fiscal_year,
                                     call.args.rates, call.args.time_based_codes)
        IN  /\ call.result.status = "ok"
            /\ Len(out) = Cardinality(good)
            /\ \A k \in 1..Len(out) :
                LET r == rows[nth(k)]
                IN  /\ out[k].cpt_code = r.cpt_code
                    /\ out[k].duration_min.v = Minutes(r.duration_min)
                    /\ out[k].encounter_date =
                         Timestamp(r.encounter_date.y, r.encounter_date.m, r.encounter_date.d)
                    /\ out[k].month = Timestamp(r.encounter_date.y, r.encounter_date.m, 1)
            /\ SumOver(1..Len(call.result.monthly_total),
                       [k \in 1..Len(call.result.monthly_total) |->
                           call.result.monthly_total[k].encounters]) = Cardinality(good)
            /\ call.result.monthly_total = again.monthly_total
            /\ call.result.monthly_by_code = again.monthly_by_code

\* A row of unparsable date ahead of a row dated 2023-12-31: one enriched
\* row, of month 2023-12-01.
C8_Witness ==
    /\ RevOk
    /\ Len(call.args.df.rows) = 2
    /\ call.args.df.rows[1].encounter_date = TextDate
    /\ call.args.df.rows[2].encounter_date = DateCell(2023, 12, 31)
    /\ Len(call.result.out) = 1
    /\ call.result.out[1].month = Timestamp(2023, 12, 1)
    /\ Len(call.result.monthly_total) = 1

\* Python's ordering of the three required column names.
NameBefore(a, b) ==
    <<a, b>> \in {<<"cpt_code", "duration_min">>, <<"cpt_code", "encounter_date">>,
                  <<"duration_min", "encounter_date">>}

\* The call failed with MissingColumns, listing exactly the absent required
\* columns in ascending order, and returned no tables.
FailedMissingColumns ==
    LET missing == call.result.missing
    IN  /\ call.result.status = "error"
        /\ call.result.error = "MissingColumns"
        /\ {missing[i] : i \in 1..Len(missing)} = RequiredCols \ call.args.df.columns
        /\ \A i, j \in 1..Len(missing) : i < j => NameBefore(missing[i], missing[j])
        /\ call.result.out = <<>>
        /\ call.result.monthly_by_code = <<>>
        /\ call.result.monthly_total = <<>>

Incomplete == ~(RequiredCols \subseteq call.args.df.columns)

Registered == {"FY23", "FY24", "FY25"}

(***************************************************************************)
(* C5: with explicit rates, every row's rate comes from the explicit       *)
(* mapping and the fiscal-year tables are not used (an unregistered        *)
(* fiscal_year is then no failure); with none, the rates are those of      *)
(* get_rates(fiscal_year).  get_rates fails with UnknownFiscalYear for     *)
(* every label other than FY23, FY24 and FY25 and otherwise returns the    *)
(* table of that very label.                                               *)
(***************************************************************************)
C5_RateResolution ==
    /\ call.op = "get_rates" =>
        IF call.args.fiscal_year \in Registered
        THEN call.result.status = "ok" /\ call.result.ref = call.args.fiscal_year
        ELSE call.result.status = "error" /\ call.result.error = "UnknownFiscalYear"
    /\ (RevCalled /\ ~Incomplete) =>
        LET out == call.result.out
        IN  IF call.args.rates.given
            THEN /\ call.result.status = "ok"
                 /\ \A k \in 1..Len(out) :
                      out[k].rate = ExpectedRate(out[k].cpt_code, call.args.rates.map)
            ELSE IF call.args.fiscal_year \in Registered
            THEN /\ call.result.status = "ok"
                 /\ \A k \in 1..Len(out) :
                      out[k].rate =
                        ExpectedRate(out[k].cpt_code, RATE_TABLES[call.args.fiscal_year])
            ELSE /\ call.result.status = "error"
                 /\ call.result.error = "UnknownFiscalYear"

\* Explicit rates with the unregistered label FY99: the call succeeds and
\* bills 90834 at the explicit 50.00, not at a catalog rate.
C5_Witness ==
    /\ RevOk
    /\ call.args.rates.given
    /\ call.args.fiscal_year = "FY99"
    /\ \E k \in 1..Len(call.result.out) :
        /\ call.result.out[k].cpt_code = "90834"
        /\ call.result.out[k].rate = 5000

(***************************************************************************)
(* C6: the mapping get_rates returns is a read-only view of immutable      *)
(* configuration: whatever get_rates and compute_revenue calls are made,   *)
(* and whatever a caller assigns into a mapping it received, each          *)
(* registered year's table keeps its configured value, so                  *)
(* get_rates("FY25") == get_rates("FY24") at all times.                    *)
(***************************************************************************)
C6_TablesImmutable ==
    /\ \A fy \in Registered : RATE_TABLES[fy] = RATE_TABLES_0[fy]
    /\ RATE_TABLES[get_rates(RATE_TABLES, "FY25").ref]
         = RATE_TABLES[get_rates(RATE_TABLES, "FY24").ref]

\* The minutes of the rows of month m, non-numeric durations counting 0.
MinutesOfMonth(rows, m) ==
    SumOver(RowsOfMonth(rows, m), [i \in 1..Len(rows) |-> Minutes(rows[i].duration_min)])

(***************************************************************************)
(* C9: compute_monthly_kpis does not fail on a zero denominator.  A month  *)
(* whose durations sum to 0 (missing and non-numeric ones counting 0) has  *)
(* its row, with client_hours = 0, utilization_rate = client_hours / 160   *)
(* = 0 and a non-finite revenue_per_hour; revenue_per_encounter is always  *)
(* finite, every row having encounters >= 1.                               *)
(***************************************************************************)
C9_ZeroDenominator ==
    call.op = "compute_monthly_kpis" =>
        LET rows == call.args.df
            res == call.result
        IN  /\ {res[k].month : k \in 1..Len(res)} = RetainedMonths(rows)
            /\ \A k \in 1..Len(res) :
                /\ res[k].encounters = Cardinality(RowsOfMonth(rows, res[k].month))
                /\ res[k].encounters >= 1
                /\ res[k].revenue_per_encounter.kind = "fin"
                /\ res[k].utilization_rate.kind = "fin"
                /\ res[k].utilization_rate.num * res[k].client_hours.den * 160
                     = res[k].client_hours.num * res[k].utilization_rate.den
                /\ MinutesOfMonth(rows, res[k].month) = 0 =>
                    /\ res[k].client_hours.kind = "fin"
                    /\ res[k].client_hours.num = 0
                    /\ res[k].utilization_rate.num = 0
                    /\ res[k].revenue_per_hour.kind \in {"inf", "-inf", "nan"}

\* A month whose only row has a non-numeric duration and revenue 110.00:
\* revenue_per_hour is inf.
C9_Witness ==
    /\ call.op = "compute_monthly_kpis"
    /\ Len(call.args.df) = 1
    /\ call.args.df[1].duration_min = TextCell
    /\ call.args.df[1].revenue = Num(11000)
    /\ Len(call.result) = 1
    /\ call.result[1].client_hours.num = 0
    /\ call.result[1].revenue_per_hour.kind = "inf"

====
